---- MODULE Spec2Model ----
(***************************************************************************)
(* A model of clitdl (src/main.rs): a terminal to-do list editor.  The    *)
(* state is the App struct, the file todos.json, the terminal's raw mode   *)
(* and alternate screen, and the position of main / run_app.  Text is a    *)
(* sequence of one-character strings, so that serde_json's writer and      *)
(* reader are modelled character by character.                             *)
(***************************************************************************)
EXTENDS Integers, Sequences, FiniteSets, TLC

VARIABLES
    pc,                  \* position in main / run_app
    todos,               \* app.todos : Vec<Todo>
    input,               \* app.input : String
    input_mode,          \* app.input_mode : InputMode
    selected_index,      \* app.selected_index : Option<usize>
    editing_task_index,  \* app.editing_task_index : Option<usize>
    file,                \* todos.json: [present, bytes]
    raw_mode,            \* the terminal is in raw mode
    alt_screen,          \* the terminal shows the alternate screen
    res,                 \* what run_app returned: "none", "ok", or the
                         \* io::Error of draw, event::read or save_todos
    exit_status,         \* "running", "success", "failure", "panic"
    lastKey,             \* the key of the last event read, NoKey if it was
                         \* no key event
    lastOp,              \* the transition the last key event applied
    saves,               \* calls of save_todos made by the last key event
    spaceRun,            \* 0..2: consecutive completed toggles just made
    spaceOrigin          \* todos and selection before the first of them

vars == <<pc, todos, input, input_mode, selected_index, editing_task_index,
          file, raw_mode, alt_screen, res, exit_status,
          lastKey, lastOp, saves, spaceRun, spaceOrigin>>

\* ------------------------------------------------------------------ bounds
\* the longest task list the model grows by creating tasks
MaxTodos == 2
\* the longest text the model types into app.input
MaxInput == 1

\* ------------------------------------------------------------ Option<usize>
None == [some |-> FALSE, val |-> 0]
Some(i) == [some |-> TRUE, val |-> i]

\* ------------------------------------------------------------------- Todo
Todo(t, c) == [title |-> t, completed |-> c]

\* saturating_sub as it would be if the subtraction were forgotten
saturating_sub_ignored(a, b) == a

\* usize::saturating_sub
saturating_sub(a, b) == IF a < b THEN 0 ELSE a - b

\* Vec::remove(index), for 0 <= index < len
remove(v, index) ==
    [k \in 1..(Len(v) - 1) |-> IF k <= index THEN v[k] ELSE v[k + 1]]

\* push as it would be if the task were inserted at the front
push_front(v, t) == <<t>> \o v

\* Vec::push
push(v, t) == Append(v, t)

\* the toggle as it would be if it set the flag instead of negating it
mark_completed(v, index) == [v EXCEPT ![index + 1].completed = TRUE]

\* app.todos[index].completed = !app.todos[index].completed
toggle_completed(v, index) == [v EXCEPT ![index + 1].completed = ~@]

\* the rename as it would be if it stored a new task under the title
replace_task(v, index, title) == [v EXCEPT ![index + 1] = Todo(title, FALSE)]

\* app.todos[index].title = title
set_title(v, index, title) == [v EXCEPT ![index + 1].title = title]

\* the selection after a removal as it would be without the step back from
\* the end of the list
selection_not_stepped_back(v, index, sel) == IF v = <<>> THEN None ELSE sel

\* the selection after todos.remove(index) left the list v, sel = Some(index)
selection_after_remove(v, index, sel) ==
    IF v = <<>> THEN None
    ELSE IF index = Len(v) THEN Some(index - 1)
    ELSE sel

\* the selection after a push as it would be if it counted from one
selection_after_push_from_one(sel) == IF ~sel.some THEN Some(1) ELSE sel

\* the selection after a task was pushed
selection_after_push(sel) == IF ~sel.some THEN Some(0) ELSE sel

\* is_empty as it would be if the buffer were never found empty
is_empty_never(s) == FALSE

\* String::is_empty
is_empty(s) == s = <<>>

\* String::pop
pop(s) == IF s = <<>> THEN <<>> ELSE SubSeq(s, 1, Len(s) - 1)

\* --------------------------------------------------- serde_json::to_string
Quote == "\""
Backslash == "\\"

\* the characters serde_json writes as a two-character escape, with the
\* second character of the escape
EscapeOut == [c \in {Quote, Backslash, "\n", "\t", "\r", "\f"} |->
    CASE c = Quote -> Quote
      [] c = Backslash -> Backslash
      [] c = "\n" -> "n"
      [] c = "\t" -> "t"
      [] c = "\r" -> "r"
      [] c = "\f" -> "f"]

RECURSIVE format_escaped_str_contents(_)
format_escaped_str_contents(s) ==
    IF s = <<>> THEN <<>>
    ELSE (IF Head(s) \in DOMAIN EscapeOut
            THEN <<Backslash, EscapeOut[Head(s)]>>
            ELSE <<Head(s)>>) \o format_escaped_str_contents(Tail(s))

serialize_str(s) == <<Quote>> \o format_escaped_str_contents(s) \o <<Quote>>

serialize_bool(b) ==
    IF b THEN <<"t", "r", "u", "e">> ELSE <<"f", "a", "l", "s", "e">>

TitleName == <<"t", "i", "t", "l", "e">>
CompletedName == <<"c", "o", "m", "p", "l", "e", "t", "e", "d">>

\* #[derive(Serialize)] struct Todo: the fields in declaration order
serialize_todo(t) ==
    <<"{">> \o serialize_str(TitleName) \o <<":">> \o serialize_str(t.title)
    \o <<",">> \o serialize_str(CompletedName) \o <<":">>
    \o serialize_bool(t.completed) \o <<"}">>

RECURSIVE serialize_elements(_)
serialize_elements(v) ==
    IF v = <<>> THEN <<>>
    ELSE IF Len(v) = 1 THEN serialize_todo(v[1])
    ELSE serialize_todo(v[1]) \o <<",">> \o serialize_elements(Tail(v))

\* serde_json::to_string(&self.todos)
to_string(v) == <<"[">> \o serialize_elements(v) \o <<"]">>

\* ---------------------------------------------------- serde_json::from_str
\* Results of the reader: Err, or Ok(value, position after the value).
Err == [ok |-> FALSE]
Ok(v, p) == [ok |-> TRUE, val |-> v, pos |-> p]

\* the character at position i, "EOF" past the end
At(s, i) == IF i >= 1 /\ i <= Len(s) THEN s[i] ELSE "EOF"

Whitespace == {" ", "\n", "\t", "\r"}
ControlChars == {"\n", "\t", "\r", "\f", "<U+0008>"}

RECURSIVE parse_whitespace(_, _)
parse_whitespace(s, i) ==
    IF At(s, i) \in Whitespace THEN parse_whitespace(s, i + 1) ELSE i

\* the escapes the reader accepts after a backslash (\uXXXX is not modelled:
\* no file of the model holds it)
EscapeIn == [c \in {Quote, Backslash, "/", "b", "f", "n", "r", "t"} |->
    CASE c = Quote -> Quote
      [] c = Backslash -> Backslash
      [] c = "/" -> "/"
      [] c = "b" -> "<U+0008>"
      [] c = "f" -> "\f"
      [] c = "n" -> "\n"
      [] c = "r" -> "\r"
      [] c = "t" -> "\t"]

RECURSIVE parse_str_contents(_, _, _)
parse_str_contents(s, i, acc) ==
    LET c == At(s, i) IN
    IF i > Len(s) THEN Err
    ELSE IF c = Quote THEN Ok(acc, i + 1)
    ELSE IF c = Backslash
        THEN IF At(s, i + 1) \in DOMAIN EscapeIn
                THEN parse_str_contents(s, i + 2, Append(acc, EscapeIn[At(s, i + 1)]))
                ELSE Err
    ELSE IF c \in ControlChars THEN Err
    ELSE parse_str_contents(s, i + 1, Append(acc, c))

\* a JSON string starting at i
parse_str(s, i) ==
    IF At(s, i) = Quote THEN parse_str_contents(s, i + 1, <<>>) ELSE Err

StartsWith(s, i, w) ==
    i + Len(w) - 1 <= Len(s) /\ SubSeq(s, i, i + Len(w) - 1) = w

\* a JSON boolean starting at i
parse_bool(s, i) ==
    IF StartsWith(s, i, <<"t", "r", "u", "e">>) THEN Ok(TRUE, i + 4)
    ELSE IF StartsWith(s, i, <<"f", "a", "l", "s", "e">>) THEN Ok(FALSE, i + 5)
    ELSE Err

\* serde::de::IgnoredAny, the value of a key that is no field of Todo.  The
\* model skips strings and the literals true, false and null; numbers and
\* nested containers under an unknown key occur in no file of the model.
ignore_value(s, i) ==
    IF At(s, i) = Quote THEN parse_str(s, i)
    ELSE IF StartsWith(s, i, <<"n", "u", "l", "l">>) THEN Ok(TRUE, i + 4)
    ELSE parse_bool(s, i)

\* #[derive(Deserialize)] struct Todo, from a JSON object: the fields in any
\* order, unknown keys ignored, a duplicate or a missing field is an error.
\* title and completed are the fields read so far, i0 is just after "{" or
\* after the last value.
RECURSIVE visit_map(_, _, _, _, _)
visit_map(s, i0, first, title, completed) ==
    LET i == parse_whitespace(s, i0)
        k == IF At(s, i) = "," /\ ~first THEN parse_whitespace(s, i + 1) ELSE i
        key == parse_str(s, k)
        c == parse_whitespace(s, key.pos)
        v == parse_whitespace(s, c + 1)
    IN
    IF At(s, i) = "}"
        THEN IF title.some /\ completed.some
                THEN Ok(Todo(title.val, completed.val), i + 1)
                ELSE Err
    ELSE IF ~first /\ At(s, i) # "," THEN Err
    ELSE IF ~key.ok THEN Err
    ELSE IF At(s, c) # ":" THEN Err
    ELSE IF key.val = TitleName
        THEN LET r == parse_str(s, v) IN
             IF title.some \/ ~r.ok THEN Err
             ELSE visit_map(s, r.pos, FALSE, [some |-> TRUE, val |-> r.val], completed)
    ELSE IF key.val = CompletedName
        THEN LET r == parse_bool(s, v) IN
             IF completed.some \/ ~r.ok THEN Err
             ELSE visit_map(s, r.pos, FALSE, title, [some |-> TRUE, val |-> r.val])
    ELSE LET r == ignore_value(s, v) IN
         IF ~r.ok THEN Err ELSE visit_map(s, r.pos, FALSE, title, completed)

\* #[derive(Deserialize)] struct Todo, from a JSON array [title, completed];
\* i0 is just after "["
visit_seq(s, i0) ==
    LET t == parse_str(s, parse_whitespace(s, i0))
        c == parse_whitespace(s, t.pos)
        b == parse_bool(s, parse_whitespace(s, c + 1))
        e == parse_whitespace(s, b.pos)
    IN
    IF ~t.ok THEN Err
    ELSE IF At(s, c) # "," THEN Err
    ELSE IF ~b.ok THEN Err
    ELSE IF At(s, e) # "]" THEN Err
    ELSE Ok(Todo(t.val, b.val), e + 1)

\* Deserializer::deserialize_struct for Todo, at a non-whitespace position
deserialize_todo(s, i) ==
    IF At(s, i) = "{"
        THEN visit_map(s, i + 1, TRUE, [some |-> FALSE, val |-> <<>>],
                       [some |-> FALSE, val |-> FALSE])
    ELSE IF At(s, i) = "[" THEN visit_seq(s, i + 1)
    ELSE Err

\* the elements of Vec<Todo>; i0 is just after "[" or after the last element
RECURSIVE vec_elements(_, _, _, _)
vec_elements(s, i0, first, acc) ==
    LET i == parse_whitespace(s, i0)
        k == IF At(s, i) = "," /\ ~first THEN parse_whitespace(s, i + 1) ELSE i
        r == deserialize_todo(s, k)
    IN
    IF At(s, i) = "]" THEN Ok(acc, i + 1)
    ELSE IF ~first /\ At(s, i) # "," THEN Err
    ELSE IF ~r.ok THEN Err
    ELSE vec_elements(s, r.pos, FALSE, Append(acc, r.val))

\* from_str as it would be without the check for trailing characters
from_str_no_end(s) ==
    LET i == parse_whitespace(s, 1)
        r == vec_elements(s, i + 1, TRUE, <<>>)
    IN
    IF At(s, i) # "[" THEN Err
    ELSE r

\* serde_json::from_str::<Vec<Todo>>: one array, then only whitespace
from_str(s) ==
    LET i == parse_whitespace(s, 1)
        r == vec_elements(s, i + 1, TRUE, <<>>)
    IN
    IF At(s, i) # "[" THEN Err
    ELSE IF ~r.ok THEN Err
    ELSE IF parse_whitespace(s, r.pos) # Len(s) + 1 THEN Err
    ELSE r

\* Result::unwrap_or_default
unwrap_or_default(r) == IF r.ok THEN r.val ELSE <<>>

\* App::load_todos: a file that cannot be read, or does not parse, is the
\* empty list
load_todos(f) ==
    IF ~f.present THEN <<>> ELSE unwrap_or_default(from_str(f.bytes))

\* ------------------------------------------------------------- todos.json
Written(bytes) == [present |-> TRUE, bytes |-> bytes]
Missing == [present |-> FALSE, bytes |-> <<>>]

\* how far a failing write got: nothing written after the truncation, or
\* everything but the last byte
PartialLengths(json) == {0, Len(json) - 1}

\* save_todos as it would be if the write were forgotten
save_todos_unwritten(f, v) == {[ok |-> TRUE, file |-> f]}

\* App::save_todos on the list v with the file f: the outcomes of
\* fs::write, which creates or truncates the file and then writes.  It
\* succeeds, or fails before the truncation (the file is untouched), or
\* fails after it (the file holds a proper prefix of the text).
save_todos(f, v) ==
    LET json == to_string(v) IN
    {[ok |-> TRUE, file |-> Written(json)], [ok |-> FALSE, file |-> f]}
    \cup {[ok |-> FALSE, file |-> Written(SubSeq(json, 1, n))] :
            n \in PartialLengths(json)}

\* ------------------------------------------------------------ the inputs
\* the lists the file holds at startup
InitialLists ==
    { <<>>,
      <<Todo(<<"q">>, FALSE)>>,
      <<Todo(<<Quote>>, TRUE), Todo(<<"q">>, FALSE)>>,
      <<Todo(<<"q">>, FALSE), Todo(<<Backslash, "q">>, TRUE), Todo(<<"q">>, TRUE)>> }

\* files holding a list, with the list they hold: the text save_todos
\* writes, and hand-written JSON (whitespace, the fields in the other order,
\* an unknown key, the array form of a struct)
StoredFiles ==
    {[file |-> Written(to_string(l)), list |-> l] : l \in InitialLists}
    \cup
    { [file |-> Written(<<" ", "[", "{">> \o serialize_str(CompletedName)
                \o <<":", " ">> \o serialize_bool(TRUE) \o <<",">>
                \o serialize_str(TitleName) \o <<":">> \o serialize_str(<<"q">>)
                \o <<"}", "]", "\n">>),
       list |-> <<Todo(<<"q">>, TRUE)>>],
      [file |-> Written(<<"[", "{">> \o serialize_str(<<"i", "d">>) \o <<":">>
                \o <<"n", "u", "l", "l", ",">>
                \o serialize_str(TitleName) \o <<":">>
                \o <<Quote, Backslash, "/", "q", Quote, ",">>
                \o serialize_str(CompletedName) \o <<":">> \o serialize_bool(FALSE)
                \o <<"}", "]">>),
       list |-> <<Todo(<<"/", "q">>, FALSE)>>],
      [file |-> Written(<<"[", "[">> \o serialize_str(<<"q">>) \o <<",">>
                \o serialize_bool(TRUE) \o <<"]", "]">>),
       list |-> <<Todo(<<"q">>, TRUE)>>] }

\* files that hold no list: an empty file, text that is not JSON, JSON of
\* another shape, a record without a field, a truncated list, a list
\* followed by more text
BrokenFiles ==
    { Written(<<>>),
      Written(<<"q">>),
      Written(<<"{", "}">>),
      Written(<<"[", "{">> \o serialize_str(TitleName) \o <<":">>
              \o serialize_str(<<"q">>) \o <<"}", "]">>),
      Written(<<"[">> \o serialize_todo(Todo(<<"q">>, FALSE)) \o <<",", "]">>),
      Written(pop(to_string(<<Todo(<<"q">>, FALSE)>>))),
      Written(to_string(<<Todo(<<"q">>, FALSE)>>) \o <<"]">>) }

InitialFiles == {Missing} \cup {s.file : s \in StoredFiles} \cup BrokenFiles

\* the characters of the key events: the ones Normal mode binds, and one
\* it does not
Chars == {"e", "q", "j", "k", " ", Quote}
\* the characters the model types into app.input
TypedChars == {"q"}

Key(code, c) == [code |-> code, c |-> c]
NoKey == Key("none", "")
NoOrigin == [todos |-> <<>>, selected_index |-> None]

\* ------------------------------------------------------------------- main
Init ==
    /\ pc = "enable_raw_mode"
    /\ file \in InitialFiles
    /\ todos = <<>>
    /\ input = <<>>
    /\ input_mode = "Normal"
    /\ selected_index = None
    /\ editing_task_index = None
    /\ raw_mode = FALSE
    /\ alt_screen = FALSE
    /\ res = "none"
    /\ exit_status = "running"
    /\ lastKey = NoKey
    /\ lastOp = "none"
    /\ saves = 0
    /\ spaceRun = 0
    /\ spaceOrigin = NoOrigin

app == <<todos, input, input_mode, selected_index, editing_task_index>>
history == <<lastKey, lastOp, saves, spaceRun, spaceOrigin>>

\* main returns Err from a `?`: the process ends with a failure status
ReturnErr == pc' = "done" /\ exit_status' = "failure"

\* enable_raw_mode()?
EnableRawMode ==
    /\ pc = "enable_raw_mode"
    /\ \/ raw_mode' = TRUE /\ pc' = "enter_alternate_screen"
                           /\ UNCHANGED exit_status
       \/ ReturnErr /\ UNCHANGED raw_mode
    /\ UNCHANGED <<app, file, alt_screen, res, history>>

\* execute!(stdout, EnterAlternateScreen, EnableMouseCapture)?
EnterAlternateScreen ==
    /\ pc = "enter_alternate_screen"
    /\ \/ alt_screen' = TRUE /\ pc' = "new_terminal" /\ UNCHANGED exit_status
       \/ ReturnErr /\ alt_screen' \in BOOLEAN
    /\ UNCHANGED <<app, file, raw_mode, res, history>>

\* Terminal::new(backend)?
NewTerminal ==
    /\ pc = "new_terminal"
    /\ \/ pc' = "load_todos" /\ UNCHANGED exit_status
       \/ ReturnErr
    /\ UNCHANGED <<app, file, raw_mode, alt_screen, res, history>>

\* let app = App { todos: App::load_todos(), ... }; run_app is entered
NewApp ==
    /\ pc = "load_todos"
    /\ todos' = load_todos(file)
    /\ input' = <<>>
    /\ input_mode' = "Normal"
    /\ selected_index' = None
    /\ editing_task_index' = None
    /\ pc' = "draw"
    /\ lastOp' = "load"
    /\ UNCHANGED <<file, raw_mode, alt_screen, res, exit_status,
                   lastKey, saves, spaceRun, spaceOrigin>>

\* run_app returns: let res = run_app(&mut terminal, app)
Return(r) == pc' = "disable_raw_mode" /\ res' = r

\* disable_raw_mode()?  run_app took the App by value and dropped it when it
\* returned: the state in which run_app has just returned still shows its
\* last value, from here on it is gone.
DisableRawMode ==
    /\ pc = "disable_raw_mode"
    /\ \/ raw_mode' = FALSE /\ pc' = "leave_alternate_screen"
                            /\ UNCHANGED exit_status
       \/ ReturnErr /\ UNCHANGED raw_mode
    /\ todos' = <<>> /\ input' = <<>> /\ input_mode' = "Normal"
    /\ selected_index' = None /\ editing_task_index' = None
    /\ lastKey' = NoKey /\ lastOp' = "none" /\ saves' = 0
    /\ spaceRun' = 0 /\ spaceOrigin' = NoOrigin
    /\ UNCHANGED <<file, alt_screen, res>>

\* execute!(terminal.backend_mut(), LeaveAlternateScreen, DisableMouseCapture)?
LeaveAlternateScreen ==
    /\ pc = "leave_alternate_screen"
    /\ \/ alt_screen' = FALSE /\ pc' = "show_cursor" /\ UNCHANGED exit_status
       \/ ReturnErr /\ alt_screen' \in BOOLEAN
    /\ UNCHANGED <<app, file, raw_mode, res, history>>

\* terminal.show_cursor()?
ShowCursor ==
    /\ pc = "show_cursor"
    /\ \/ pc' = "report" /\ UNCHANGED exit_status
       \/ ReturnErr
    /\ UNCHANGED <<app, file, raw_mode, alt_screen, res, history>>

\* if let Err(err) = res { println!(..) }  Ok(())
Report ==
    /\ pc = "report"
    /\ pc' = "done"
    /\ exit_status' = "success"
    /\ UNCHANGED <<app, file, raw_mode, alt_screen, res, history>>

\* ---------------------------------------------------------------- run_app
terminal == <<raw_mode, alt_screen, exit_status>>

\* the handler is done: the loop draws again
Loop == pc' = "draw" /\ UNCHANGED res

\* what the key event was and did
Pressed(key, op, n) == lastKey' = key /\ lastOp' = op /\ saves' = n

\* the key event was not a completed toggle
NotToggled == spaceRun' = 0 /\ spaceOrigin' = NoOrigin

\* Option<usize> holding an index of the vector
InBounds(o, v) == o.some /\ o.val < Len(v)

\* terminal.draw(|f| ui(f, &app))?
Draw ==
    /\ pc = "draw"
    /\ \/ pc' = "read" /\ UNCHANGED res
       \/ Return("err_draw")
    /\ UNCHANGED <<app, file, terminal, history>>

\* event::read()? fails
ReadErr ==
    /\ pc = "read"
    /\ Return("err_read")
    /\ UNCHANGED <<app, file, terminal, history>>

\* event::read()? returns an event that is no key event (mouse, resize)
ReadOtherEvent ==
    /\ pc = "read"
    /\ pc' = "draw"
    /\ Pressed(NoKey, "noop", 0)
    /\ UNCHANGED <<app, file, terminal, res, spaceRun, spaceOrigin>>

\* Normal, KeyCode::Char('e')
NormalE ==
    /\ pc = "read" /\ input_mode = "Normal"
    /\ input_mode' = "Editing"
    /\ Pressed(Key("Char", "e"), "creating", 0) /\ NotToggled /\ Loop
    /\ UNCHANGED <<todos, input, selected_index, editing_task_index, file, terminal>>

\* Normal, Enter as it would be if the index edited were one past the
\* selection
NormalEnter_off_by_one ==
    /\ pc = "read" /\ input_mode = "Normal"
    /\ IF InBounds(selected_index, todos)
         THEN /\ input' = todos[selected_index.val + 1].title
              /\ editing_task_index' = Some(selected_index.val + 1)
              /\ input_mode' = "TaskEditing"
              /\ Pressed(Key("Enter", ""), "editing", 0)
         ELSE /\ UNCHANGED <<input, editing_task_index, input_mode>>
              /\ Pressed(Key("Enter", ""), "noop", 0)
    /\ NotToggled /\ Loop
    /\ UNCHANGED <<todos, selected_index, file, terminal>>

\* Normal, KeyCode::Enter
NormalEnter ==
    /\ pc = "read" /\ input_mode = "Normal"
    /\ IF InBounds(selected_index, todos)
         THEN /\ input' = todos[selected_index.val + 1].title
              /\ editing_task_index' = Some(selected_index.val)
              /\ input_mode' = "TaskEditing"
              /\ Pressed(Key("Enter", ""), "editing", 0)
         ELSE /\ UNCHANGED <<input, editing_task_index, input_mode>>
              /\ Pressed(Key("Enter", ""), "noop", 0)
    /\ NotToggled /\ Loop
    /\ UNCHANGED <<todos, selected_index, file, terminal>>

\* Normal, KeyCode::Char('q')
NormalQ ==
    /\ pc = "read" /\ input_mode = "Normal"
    /\ Return("ok")
    /\ Pressed(Key("Char", "q"), "quit", 0) /\ NotToggled
    /\ UNCHANGED <<app, file, terminal>>

\* Normal, KeyCode::Char('j') | KeyCode::Down
NormalDown ==
    /\ pc = "read" /\ input_mode = "Normal"
    /\ \E key \in {Key("Char", "j"), Key("Down", "")} :
          Pressed(key, "down", 0)
    /\ selected_index' =
          IF selected_index.some
            THEN IF selected_index.val < saturating_sub(Len(todos), 1)
                   THEN Some(selected_index.val + 1)
                   ELSE selected_index
            ELSE Some(0)
    /\ NotToggled /\ Loop
    /\ UNCHANGED <<todos, input, input_mode, editing_task_index, file, terminal>>

\* Normal, KeyCode::Char('k') | KeyCode::Up
NormalUp ==
    /\ pc = "read" /\ input_mode = "Normal"
    /\ \E key \in {Key("Char", "k"), Key("Up", "")} :
          Pressed(key, "up", 0)
    /\ selected_index' =
          IF selected_index.some /\ selected_index.val > 0
            THEN Some(selected_index.val - 1)
            ELSE selected_index
    /\ NotToggled /\ Loop
    /\ UNCHANGED <<todos, input, input_mode, editing_task_index, file, terminal>>

\* Normal, Space as it would be if the save were made outside the bounds
\* check
NormalSpace_saves_always ==
    /\ pc = "read" /\ input_mode = "Normal"
    /\ LET toggled == IF InBounds(selected_index, todos)
                        THEN toggle_completed(todos, selected_index.val)
                        ELSE todos
       IN \E o \in save_todos(file, toggled) :
            /\ todos' = toggled
            /\ file' = o.file
            /\ Pressed(Key("Char", " "), "toggle", 1)
            /\ IF o.ok
                 THEN /\ Loop
                      /\ spaceRun' = (IF spaceRun = 1 THEN 2 ELSE 1)
                      /\ spaceOrigin' =
                            IF spaceRun = 1 THEN spaceOrigin
                            ELSE [todos |-> todos,
                                  selected_index |-> selected_index]
                 ELSE Return("err_save") /\ NotToggled
    /\ UNCHANGED <<input, input_mode, selected_index, editing_task_index, terminal>>

\* Normal, KeyCode::Char(' ')
NormalSpace ==
    /\ pc = "read" /\ input_mode = "Normal"
    /\ IF InBounds(selected_index, todos)
         THEN LET toggled == toggle_completed(todos, selected_index.val)
              IN \E o \in save_todos(file, toggled) :
                    /\ todos' = toggled
                    /\ file' = o.file
                    /\ Pressed(Key("Char", " "), "toggle", 1)
                    /\ IF o.ok
                         THEN /\ Loop
                              /\ spaceRun' = (IF spaceRun = 1 THEN 2 ELSE 1)
                              /\ spaceOrigin' =
                                    IF spaceRun = 1 THEN spaceOrigin
                                    ELSE [todos |-> todos,
                                          selected_index |-> selected_index]
                         ELSE Return("err_save") /\ NotToggled
         ELSE /\ UNCHANGED <<todos, file>>
              /\ Pressed(Key("Char", " "), "noop", 0)
              /\ NotToggled /\ Loop
    /\ UNCHANGED <<input, input_mode, selected_index, editing_task_index, terminal>>

\* Normal, Delete as it would be if the selection were put back in range
\* after the bounds check instead of inside it
NormalDelete_reclamps_always ==
    /\ pc = "read" /\ input_mode = "Normal"
    /\ \E code \in {"Delete", "Backspace"} :
        IF InBounds(selected_index, todos)
          THEN LET index == selected_index.val
                   removed == remove(todos, index)
               IN \E o \in save_todos(file, removed) :
                    /\ todos' = removed
                    /\ file' = o.file
                    /\ Pressed(Key(code, ""), "delete", 1)
                    /\ IF o.ok
                         THEN /\ selected_index' =
                                    selection_after_remove(removed, index,
                                                           selected_index)
                              /\ Loop
                         ELSE UNCHANGED selected_index /\ Return("err_save")
          ELSE /\ UNCHANGED <<todos, file>>
               /\ selected_index' =
                     IF todos = <<>> THEN None ELSE selected_index
               /\ Pressed(Key(code, ""), "noop", 0)
               /\ Loop
    /\ NotToggled
    /\ UNCHANGED <<input, input_mode, editing_task_index, terminal>>

\* Normal, KeyCode::Delete | KeyCode::Backspace
NormalDelete ==
    /\ pc = "read" /\ input_mode = "Normal"
    /\ \E code \in {"Delete", "Backspace"} :
        IF InBounds(selected_index, todos)
          THEN LET index == selected_index.val
                   removed == remove(todos, index)
               IN \E o \in save_todos(file, removed) :
                    /\ todos' = removed
                    /\ file' = o.file
                    /\ Pressed(Key(code, ""), "delete", 1)
                    /\ IF o.ok
                         THEN /\ selected_index' =
                                    selection_after_remove(removed, index,
                                                           selected_index)
                              /\ Loop
                         ELSE UNCHANGED selected_index /\ Return("err_save")
          ELSE /\ UNCHANGED <<todos, file, selected_index>>
               /\ Pressed(Key(code, ""), "noop", 0)
               /\ Loop
    /\ NotToggled
    /\ UNCHANGED <<input, input_mode, editing_task_index, terminal>>

\* Normal, _ => {}
NormalOther ==
    /\ pc = "read" /\ input_mode = "Normal"
    /\ \E key \in {Key("Char", c) : c \in Chars \ {"e", "q", "j", "k", " "}}
                  \cup {Key("Esc", "")} :
          Pressed(key, "noop", 0)
    /\ NotToggled /\ Loop
    /\ UNCHANGED <<app, file, terminal>>

\* the key codes the editing modes do not bind
UnboundInEditing == {Key("Delete", ""), Key("Up", ""), Key("Down", "")}

\* TaskEditing, KeyCode::Enter.  app.todos[index] is an unchecked index: out
\* of bounds it panics and the process aborts where it stands.
TaskEditingEnter ==
    /\ pc = "read" /\ input_mode = "TaskEditing"
    /\ IF ~editing_task_index.some
         THEN /\ UNCHANGED <<todos, input, input_mode, editing_task_index, file>>
              /\ UNCHANGED exit_status
              /\ Pressed(Key("Enter", ""), "noop", 0) /\ Loop
       ELSE IF is_empty(input)
         THEN /\ editing_task_index' = None
              /\ input_mode' = "Normal"
              /\ UNCHANGED <<todos, input, file, exit_status>>
              /\ Pressed(Key("Enter", ""), "rename_empty", 0) /\ Loop
       ELSE IF ~InBounds(editing_task_index, todos)
         THEN /\ input' = <<>>
              /\ pc' = "done" /\ exit_status' = "panic"
              /\ UNCHANGED <<todos, input_mode, editing_task_index, file, res>>
              /\ Pressed(Key("Enter", ""), "rename", 0)
       ELSE LET renamed == set_title(todos, editing_task_index.val, input)
            IN \E o \in save_todos(file, renamed) :
                  /\ todos' = renamed
                  /\ input' = <<>>
                  /\ file' = o.file
                  /\ UNCHANGED exit_status
                  /\ Pressed(Key("Enter", ""), "rename", 1)
                  /\ IF o.ok
                       THEN /\ editing_task_index' = None
                            /\ input_mode' = "Normal"
                            /\ Loop
                       ELSE /\ UNCHANGED <<editing_task_index, input_mode>>
                            /\ Return("err_save")
    /\ NotToggled
    /\ UNCHANGED <<selected_index, raw_mode, alt_screen>>

\* TaskEditing, KeyCode::Char(c)
TaskEditingChar ==
    /\ pc = "read" /\ input_mode = "TaskEditing"
    /\ Len(input) < MaxInput
    /\ \E c \in TypedChars :
          input' = Append(input, c) /\ Pressed(Key("Char", c), "push", 0)
    /\ NotToggled /\ Loop
    /\ UNCHANGED <<todos, input_mode, selected_index, editing_task_index, file, terminal>>

\* TaskEditing, KeyCode::Backspace
TaskEditingBackspace ==
    /\ pc = "read" /\ input_mode = "TaskEditing"
    /\ input' = pop(input)
    /\ Pressed(Key("Backspace", ""), "pop", 0) /\ NotToggled /\ Loop
    /\ UNCHANGED <<todos, input_mode, selected_index, editing_task_index, file, terminal>>

\* TaskEditing, Esc as it would be if it left the buffer alone, as the Esc
\* of Editing does
TaskEditingEsc_keeps_buffer ==
    /\ pc = "read" /\ input_mode = "TaskEditing"
    /\ editing_task_index' = None
    /\ input_mode' = "Normal"
    /\ Pressed(Key("Esc", ""), "cancel_edit", 0) /\ NotToggled /\ Loop
    /\ UNCHANGED <<todos, input, selected_index, file, terminal>>

\* TaskEditing, KeyCode::Esc
TaskEditingEsc ==
    /\ pc = "read" /\ input_mode = "TaskEditing"
    /\ input' = <<>>
    /\ editing_task_index' = None
    /\ input_mode' = "Normal"
    /\ Pressed(Key("Esc", ""), "cancel_edit", 0) /\ NotToggled /\ Loop
    /\ UNCHANGED <<todos, selected_index, file, terminal>>

\* TaskEditing, _ => {}
TaskEditingOther ==
    /\ pc = "read" /\ input_mode = "TaskEditing"
    /\ \E key \in UnboundInEditing : Pressed(key, "noop", 0)
    /\ NotToggled /\ Loop
    /\ UNCHANGED <<app, file, terminal>>

\* Editing, KeyCode::Enter
EditingEnter ==
    /\ pc = "read" /\ input_mode = "Editing"
    /\ IF is_empty(input)
         THEN /\ input_mode' = "Normal"
              /\ UNCHANGED <<todos, input, selected_index, file>>
              /\ Pressed(Key("Enter", ""), "create_empty", 0) /\ Loop
         ELSE /\ Len(todos) < MaxTodos
              /\ LET pushed == push(todos, Todo(input, FALSE))
                 IN \E o \in save_todos(file, pushed) :
                      /\ todos' = pushed
                      /\ input' = <<>>
                      /\ file' = o.file
                      /\ Pressed(Key("Enter", ""), "create", 1)
                      /\ IF o.ok
                           THEN /\ selected_index' =
                                      selection_after_push(selected_index)
                                /\ input_mode' = "Normal"
                                /\ Loop
                           ELSE /\ UNCHANGED <<selected_index, input_mode>>
                                /\ Return("err_save")
    /\ NotToggled
    /\ UNCHANGED <<editing_task_index, terminal>>

\* Editing, Char as it would be if q left the loop in this mode too
EditingChar_q_quits ==
    /\ pc = "read" /\ input_mode = "Editing"
    /\ Len(input) < MaxInput
    /\ \E c \in TypedChars :
          /\ Pressed(Key("Char", c), "push", 0)
          /\ IF c = "q"
               THEN UNCHANGED input /\ Return("ok")
               ELSE input' = Append(input, c) /\ Loop
    /\ NotToggled
    /\ UNCHANGED <<todos, input_mode, selected_index, editing_task_index, file, terminal>>

\* Editing, KeyCode::Char(c)
EditingChar ==
    /\ pc = "read" /\ input_mode = "Editing"
    /\ Len(input) < MaxInput
    /\ \E c \in TypedChars :
          input' = Append(input, c) /\ Pressed(Key("Char", c), "push", 0)
    /\ NotToggled /\ Loop
    /\ UNCHANGED <<todos, input_mode, selected_index, editing_task_index, file, terminal>>

\* Editing, KeyCode::Backspace
EditingBackspace ==
    /\ pc = "read" /\ input_mode = "Editing"
    /\ input' = pop(input)
    /\ Pressed(Key("Backspace", ""), "pop", 0) /\ NotToggled /\ Loop
    /\ UNCHANGED <<todos, input_mode, selected_index, editing_task_index, file, terminal>>

\* Editing, KeyCode::Esc
EditingEsc ==
    /\ pc = "read" /\ input_mode = "Editing"
    /\ input_mode' = "Normal"
    /\ Pressed(Key("Esc", ""), "cancel_create", 0) /\ NotToggled /\ Loop
    /\ UNCHANGED <<todos, input, selected_index, editing_task_index, file, terminal>>

\* Editing, _ => {}
EditingOther ==
    /\ pc = "read" /\ input_mode = "Editing"
    /\ \E key \in UnboundInEditing : Pressed(key, "noop", 0)
    /\ NotToggled /\ Loop
    /\ UNCHANGED <<app, file, terminal>>

Next ==
    \/ EnableRawMode \/ EnterAlternateScreen \/ NewTerminal \/ NewApp
    \/ Draw \/ ReadErr \/ ReadOtherEvent
    \/ NormalE \/ NormalEnter \/ NormalQ \/ NormalDown \/ NormalUp
    \/ NormalSpace \/ NormalDelete \/ NormalOther
    \/ TaskEditingEnter \/ TaskEditingChar \/ TaskEditingBackspace
    \/ TaskEditingEsc \/ TaskEditingOther
    \/ EditingEnter \/ EditingChar \/ EditingBackspace \/ EditingEsc
    \/ EditingOther
    \/ DisableRawMode \/ LeaveAlternateScreen \/ ShowCursor \/ Report

Spec == Init /\ [][Next]_vars

TypeOK ==
    /\ pc \in {"enable_raw_mode", "enter_alternate_screen", "new_terminal",
               "load_todos", "draw", "read", "disable_raw_mode",
               "leave_alternate_screen", "show_cursor", "report", "done"}
    /\ input_mode \in {"Normal", "Editing", "TaskEditing"}
    /\ res \in {"none", "ok", "err_draw", "err_read", "err_save"}
    /\ exit_status \in {"running", "success", "failure", "panic"}
    /\ saves \in {0, 1}
    /\ spaceRun \in 0..2

\* ================================================================ claims
\* the session exists: run_app is in its loop
InLoop == pc \in {"draw", "read"}

\* C1: in every state of the session, selection is None exactly when the
\* task list is empty, and otherwise an index below the length of the list.
C1_SelectionNoneIffEmpty ==
    InLoop =>
        /\ (selected_index = None) <=> (todos = <<>>)
        /\ selected_index.some => selected_index.val < Len(todos)

\* C2: the session starts in Normal mode with the list the store holds, and
\* with selection Some(0) if that list is non-empty, otherwise None.
C2_InitialState ==
    lastOp = "load" =>
        /\ input_mode = "Normal"
        /\ todos = load_todos(file)
        /\ selected_index = (IF todos # <<>> THEN Some(0) ELSE None)

\* C3: whenever the run loop waits for the next key event, the list the file
\* holds is the list in memory, titles, flags and order: every save a
\* transition made has completed.  (It holds before the first mutation too:
\* the list in memory is then the list that was loaded.)
C3_PersistedEqualsMemory ==
    pc = "read" => load_todos(file) = todos

\* C3 witness: the loop waits for a key after a toggle was saved, and the
\* file holds the text of the toggled list
C3_Witness ==
    /\ pc = "read"
    /\ lastOp = "toggle"
    /\ todos # <<>>
    /\ file = Written(to_string(todos))

\* a step in which a handler's save_todos()? returned the error
SaveFailed == pc = "read" /\ res' = "err_save"

\* C4: when save_todos fails in a persisting transition, run_app returns
\* that error at once (no further key event, no second save), the list in
\* memory keeps the mutation, and the file still holds the list saved before.
C4_SaveFailure ==
    [][SaveFailed =>
        /\ pc' = "disable_raw_mode"
        /\ saves' = 1
        /\ lastOp' \in {"toggle", "delete", "create", "rename"}
        /\ lastOp' = "toggle" =>
              /\ Len(todos') = Len(todos)
              /\ todos'[selected_index.val + 1].completed
                    = ~todos[selected_index.val + 1].completed
        /\ lastOp' = "delete" => Len(todos') = Len(todos) - 1
        /\ lastOp' = "create" =>
              todos' = Append(todos, [title |-> input, completed |-> FALSE])
        /\ lastOp' = "rename" =>
              todos'[editing_task_index.val + 1].title = input
        /\ load_todos(file') = load_todos(file)]_vars

\* C5: once the terminal is restored, the process ends with a failure status
\* if run_app returned the error of save_todos, and with success after q.
C5_ExitStatus ==
    [][pc = "report" =>
        /\ (res = "err_save" => exit_status' = "failure")
        /\ (res = "ok" => exit_status' = "success")]_vars

\* C6: whenever the process has ended after raw mode was enabled, raw mode
\* is disabled again.
C6_RawModeRestored ==
    pc = "done" => ~raw_mode

\* C7: load_todos never fails: a missing file and a file that does not parse
\* give the empty list and a session in Normal mode, a file holding a list
\* gives that list, in order.
C7_LoadTodos ==
    lastOp = "load" =>
        /\ input_mode = "Normal"
        /\ (file = Missing \/ file \in BrokenFiles) => todos = <<>>
        /\ \A s \in StoredFiles : file = s.file => todos = s.list

\* C7 witness: the session has started on a file that is present but does
\* not parse
C7_Witness ==
    /\ lastOp = "load"
    /\ pc = "read"
    /\ file \in BrokenFiles
    /\ file.bytes # <<>>
    /\ todos = <<>>

\* a step in which Enter in Creating mode with a non-empty buffer completed
CreateStep ==
    /\ pc = "read" /\ input_mode = "Editing" /\ input # <<>>
    /\ lastKey' = Key("Enter", "") /\ pc' = "draw"

\* C8: Enter in Creating mode with a non-empty buffer appends exactly one
\* task {title: buffer, completed: false} at the end, the others unchanged,
\* clears the buffer, sets the selection to Some(0) if it was None and
\* leaves it otherwise, returns to Normal, and the file then holds the new
\* list; on an empty list the result is one task with selection Some(0).
C8_Create ==
    [][CreateStep =>
        /\ Len(todos') = Len(todos) + 1
        /\ \A k \in 1..Len(todos) : todos'[k] = todos[k]
        /\ todos'[Len(todos')] = [title |-> input, completed |-> FALSE]
        /\ input' = <<>>
        /\ selected_index' = (IF selected_index = None THEN Some(0)
                              ELSE selected_index)
        /\ input_mode' = "Normal"
        /\ saves' = 1
        /\ load_todos(file') = todos'
        /\ (todos = <<>> => selected_index' = Some(0))]_vars

\* C8 witness: a first task was created: one task, not completed, selected,
\* and the file holds it
C8_Witness ==
    /\ pc = "draw" /\ lastOp = "create"
    /\ Len(todos) = 1
    /\ ~todos[1].completed
    /\ selected_index = Some(0)
    /\ input = <<>> /\ input_mode = "Normal"
    /\ file = Written(to_string(todos))

\* C9: Space pressed twice in succession on a valid selection gives back the
\* list and the selection as they were (the first press having flipped the
\* selected task's flag and nothing else), and each press saves once, the
\* file holding the list as it is after that press.
C9_ToggleTwice ==
    /\ spaceRun = 1 =>
          /\ InBounds(spaceOrigin.selected_index, spaceOrigin.todos)
          /\ Len(todos) = Len(spaceOrigin.todos)
          /\ \A k \in 1..Len(todos) :
                /\ todos[k].title = spaceOrigin.todos[k].title
                /\ todos[k].completed =
                      IF k = spaceOrigin.selected_index.val + 1
                        THEN ~spaceOrigin.todos[k].completed
                        ELSE spaceOrigin.todos[k].completed
          /\ selected_index = spaceOrigin.selected_index
    /\ spaceRun = 2 =>
          /\ todos = spaceOrigin.todos
          /\ selected_index = spaceOrigin.selected_index
    /\ (pc = "draw" /\ lastOp = "toggle") =>
          /\ spaceRun \in {1, 2}
          /\ saves = 1
          /\ load_todos(file) = todos

\* C9 witness: Space was pressed twice on a task that was completed
C9_Witness ==
    /\ pc = "draw" /\ lastOp = "toggle" /\ spaceRun = 2
    /\ selected_index.some
    /\ todos[selected_index.val + 1].completed

\* a step in which Delete or Backspace in Normal mode with a valid selection
\* completed
DeleteStep ==
    /\ pc = "read" /\ input_mode = "Normal"
    /\ InBounds(selected_index, todos)
    /\ lastKey'.code \in {"Delete", "Backspace"} /\ pc' = "draw"

\* C10: Delete/Backspace in Normal mode with a valid selection i removes
\* exactly the task at i, the others keeping order and content; then the
\* selection is None if the list became empty, stays i (now the task
\* formerly at i+1) if i was not the last index, and is i-1 if i was the
\* last index of a list of two or more.
C10_Delete ==
    [][DeleteStep =>
        LET i == selected_index.val
            n == Len(todos)
        IN /\ Len(todos') = n - 1
           /\ \A k \in 1..(n - 1) :
                 todos'[k] = IF k <= i THEN todos[k] ELSE todos[k + 1]
           /\ (n = 1 => selected_index' = None)
           /\ (i < n - 1 => /\ selected_index' = Some(i)
                            /\ todos'[i + 1] = todos[i + 2])
           /\ (i = n - 1 /\ n >= 2 => selected_index' = Some(i - 1))]_vars

\* C10 witness: the last of three tasks was deleted: two tasks are left and
\* the second is selected
C10_Witness ==
    /\ pc = "draw" /\ lastOp = "delete"
    /\ Len(todos) = 2
    /\ selected_index = Some(1)
    /\ todos = <<Todo(<<"q">>, FALSE), Todo(<<Backslash, "q">>, TRUE)>>

\* a step in which the handler of a key event ran; the key is lastKey'
KeyStep ==
    /\ pc = "read" /\ pc' # "read"
    /\ res' # "err_read"
    /\ lastKey' # NoKey

\* C11: whenever the mode is TaskEditing, editing_task_index is present and
\* is an index of the task list, so the unchecked write of Enter stays in
\* bounds: no run panics.
C11_EditingIndexValid ==
    /\ input_mode = "TaskEditing" => InBounds(editing_task_index, todos)
    /\ exit_status # "panic"

\* C11 witness: the second task is being edited and the loop waits for a key
C11_Witness ==
    /\ pc = "read"
    /\ input_mode = "TaskEditing"
    /\ editing_task_index = Some(1)
    /\ Len(todos) = 2

\* C12: whenever Creating mode has just been entered with e, the buffer is
\* empty, whatever was typed before (text of a Creating session left with
\* Esc is gone).
C12_CreatingStartsEmpty ==
    lastOp = "creating" => input = <<>>

\* C13: Esc in TaskEditing mode leaves every task and the file as they are,
\* saves nothing, clears the buffer and editing_task_index and returns to
\* Normal; the character and Backspace keys before it change only the
\* buffer.
C13_EscInTaskEditing ==
    [][KeyStep /\ input_mode = "TaskEditing" =>
        /\ lastKey'.code = "Esc" =>
              /\ todos' = todos /\ file' = file /\ saves' = 0
              /\ input' = <<>>
              /\ editing_task_index' = None
              /\ input_mode' = "Normal"
              /\ selected_index' = selected_index
              /\ pc' = "draw"
        /\ lastKey'.code \in {"Char", "Backspace"} =>
              /\ todos' = todos /\ file' = file /\ saves' = 0
              /\ input_mode' = "TaskEditing"
              /\ editing_task_index' = editing_task_index]_vars

\* C13 witness: an edit was cancelled with Esc: Normal mode, the buffer and
\* the index are cleared, the selected task still has its title
C13_Witness ==
    /\ pc = "draw" /\ lastOp = "cancel_edit" /\ lastKey = Key("Esc", "")
    /\ input_mode = "Normal"
    /\ input = <<>> /\ editing_task_index = None
    /\ todos = <<Todo(<<Quote>>, TRUE), Todo(<<"q">>, FALSE)>>
    /\ file = Written(to_string(todos))
    /\ saves = 0

\* C14: Enter in Creating mode with an empty buffer changes neither the task
\* list nor the file nor the selection, saves nothing and returns to Normal.
C14_CreateEmpty ==
    [][KeyStep /\ input_mode = "Editing" /\ lastKey'.code = "Enter"
         /\ input = <<>> =>
        /\ todos' = todos /\ file' = file /\ saves' = 0
        /\ selected_index' = selected_index
        /\ input' = <<>>
        /\ input_mode' = "Normal"
        /\ pc' = "draw"]_vars

\* C14 witness: Enter was pressed on an empty buffer in Creating mode, with
\* tasks in the list
C14_Witness ==
    /\ pc = "draw" /\ lastOp = "create_empty"
    /\ input_mode = "Normal" /\ input = <<>>
    /\ Len(todos) = 2
    /\ saves = 0

\* the keys of Normal mode that act on the selected task
IndexKeys == {Key("Char", " "), Key("Delete", ""), Key("Backspace", ""),
              Key("Enter", "")}

Min(a, b) == IF a < b THEN a ELSE b
Max(a, b) == IF a > b THEN a ELSE b

\* the last index of a list of n tasks, as a usize: 0 for the empty list
LastIndex(n) == IF n = 0 THEN 0 ELSE n - 1

C17_Rename ==
    [][KeyStep /\ input_mode = "TaskEditing" /\ lastKey'.code = "Enter"
         /\ pc' = "draw" =>
        LET i == editing_task_index.val + 1 IN
        /\ input # <<>> =>
              /\ Len(todos') = Len(todos)
              /\ todos'[i].title = input
              /\ todos'[i].completed = todos[i].completed
              /\ \A k \in 1..Len(todos) : k # i => todos'[k] = todos[k]
              /\ saves' = 1
              /\ load_todos(file') = todos'
        /\ input = <<>> =>
              /\ todos' = todos /\ file' = file /\ saves' = 0
        /\ selected_index' = selected_index
        /\ input' = <<>>
        /\ editing_task_index' = None
        /\ input_mode' = "Normal"]_vars

\* C17 witness: the first task, completed and titled with a quote, was
\* renamed to q: it is still completed, the second task is as it was, and
\* the file holds the list
C17_Witness ==
    /\ pc = "draw" /\ lastOp = "rename"
    /\ todos = <<Todo(<<"q">>, TRUE), Todo(<<"q">>, FALSE)>>
    /\ input = <<>> /\ editing_task_index = None /\ input_mode = "Normal"
    /\ file = Written(to_string(todos))

\* the handler of the key saves: the four mutating transitions
Mutating(key) ==
    \/ /\ input_mode = "Normal" /\ InBounds(selected_index, todos)
       /\ key \in {Key("Char", " "), Key("Delete", ""), Key("Backspace", "")}
    \/ /\ input_mode = "Editing" /\ input # <<>> /\ key = Key("Enter", "")
    \/ /\ input_mode = "TaskEditing" /\ input # <<>> /\ key = Key("Enter", "")
       /\ editing_task_index.some

\* C18: a key event applies one transition and saves at most once; it saves
\* exactly on toggle, delete, create with a non-empty buffer and rename with
\* a non-empty buffer, and every other key event leaves the task list and
\* the file as they are.
C18_SaveExactlyOnMutation ==
    [][KeyStep =>
        /\ saves' \in {0, 1}
        /\ (saves' = 1) <=> Mutating(lastKey')
        /\ saves' = 1 =>
              /\ lastOp' \in {"toggle", "delete", "create", "rename"}
              /\ pc' = "draw" => file' = Written(to_string(todos'))
        /\ saves' = 0 => todos' = todos /\ file' = file]_vars

\* C18 witness: a key that is bound to nothing in Normal mode was pressed
\* with a task selected: nothing was saved
C18_Witness ==
    /\ pc = "draw" /\ lastOp = "noop" /\ lastKey = Key("Esc", "")
    /\ input_mode = "Normal"
    /\ InBounds(selected_index, todos)
    /\ saves = 0

\* C19: run_app returns Ok only from q pressed in Normal mode, without a
\* save and with the list and the file as they were; in Creating and
\* TaskEditing mode a character key, q included, is appended to the buffer
\* and does nothing else; and termination can always be reached: Esc is
\* possible in both editing modes and leads to Normal, the draw leads to the
\* next read, and q is possible in Normal mode and returns Ok.
C19_Quit ==
    [][/\ (res' = "ok" /\ res # "ok") =>
              /\ pc = "read" /\ input_mode = "Normal"
              /\ lastKey' = Key("Char", "q")
              /\ saves' = 0 /\ todos' = todos /\ file' = file
       /\ (KeyStep /\ input_mode # "Normal" /\ lastKey'.code = "Char") =>
              /\ input' = Append(input, lastKey'.c)
              /\ pc' = "draw" /\ res' = res
              /\ UNCHANGED <<todos, input_mode, selected_index,
                             editing_task_index, file>>
              /\ saves' = 0
       /\ (pc = "read" /\ input_mode # "Normal") =>
              ENABLED (TaskEditingEsc \/ EditingEsc)
       /\ (KeyStep /\ input_mode # "Normal" /\ lastKey'.code = "Esc") =>
              input_mode' = "Normal" /\ pc' = "draw"
       /\ pc = "draw" => ENABLED (Draw /\ pc' = "read")
       /\ (pc = "read" /\ input_mode = "Normal") => ENABLED NormalQ
       /\ (KeyStep /\ input_mode = "Normal" /\ lastKey' = Key("Char", "q")) =>
              res' = "ok" /\ pc' = "disable_raw_mode"]_vars

\* C19 witness: q was typed in Creating mode: it is in the buffer and the
\* loop goes on
C19_Witness ==
    /\ pc = "draw" /\ input_mode = "Editing"
    /\ lastKey = Key("Char", "q") /\ lastOp = "push"
    /\ input = <<"q">>
    /\ res = "none" /\ exit_status = "running"

\* C20: in every state of the session a present selection Some(i) has
\* i < max(len, 1): it is an index of the list, or Some(0) on the empty
\* list; editing_task_index is None outside TaskEditing mode and equals the
\* selection in TaskEditing mode.
C20_SelectionAndEditingIndex ==
    InLoop =>
        /\ selected_index.some => selected_index.val < Max(Len(todos), 1)
        /\ input_mode # "TaskEditing" => editing_task_index = None
        /\ input_mode = "TaskEditing" => editing_task_index = selected_index

\* C20 witness: the selection is Some(0) on the empty list, outside
\* TaskEditing mode
C20_Witness ==
    /\ pc = "read"
    /\ todos = <<>>
    /\ selected_index = Some(0)
    /\ input_mode = "Editing"
    /\ editing_task_index = None

====
